---- MODULE Spec2Model ----
(***************************************************************************)
(* The bonding-curve pricing engine (src/unnamed/part_002, lines 366-691): *)
(* calculatePriceAtSupply, calculateBuyPrice, calculateSellPrice,          *)
(* calculateMarketCap, calculatePriceImpact, calculateSlippage,            *)
(* validateTrade and calculateOptimalTradeSize, applied to inputs drawn    *)
(* from bounded sets.                                                      *)
(*                                                                         *)
(* Numbers.  BN values are unbounded integers; every product the code      *)
(* forms before a division (x.mul(a).div(b)) is computed here by MulDiv,   *)
(* which yields the same quotient without the wide intermediate product.   *)
(* A percentage the code returns as a JavaScript number n / 100 is kept as *)
(* the integer n (hundredths of a percent); maxSlippage is given in the    *)
(* same unit, so `priceImpact > maxSlippage` compares the two integers.    *)
(* pricePerToken (a number, lamports / 10^9) is kept as its numerator.     *)
(*                                                                         *)
(* Exceptions.  `new BN(x)` asserts x < 2^53, so calculatePriceAtSupply    *)
(* throws once Math.floor(Math.pow(1.1, supply) * 1000) reaches 2^53,      *)
(* which happens from supply = UnsafeSupply on.  A call that throws has    *)
(* the result Throw.  The supplies drawn are small ones, whose prices are  *)
(* far below 2^53 (so that BN.toNumber() is exact and does not throw), and *)
(* supplies around MAX_SUPPLY, where the price throws.                     *)
(*                                                                         *)
(* Specifications.  Spec applies one exported function to drawn inputs.    *)
(* SpecReserve applies buy and sell quotes to a reserve, SpecSearch runs   *)
(* calculateOptimalTradeSize one loop iteration at a time.  SpecChat is    *)
(* the WebSocket life cycle of the hook useChat and SpecKeys the key lists *)
(* of the hook useUserKeys (src/app/src/hooks).  Each specification holds  *)
(* the variables of the others at their initial values.                    *)
(***************************************************************************)
EXTENDS Integers, Sequences, FiniteSets, TLC

VARIABLES currentSupply, amount, isBuy, basePrice, maxSlippage, op, result

\* CurveState.reserveBalance (line 397), kept by a ledger of trades
VARIABLES reserveBalance

\* the locals of calculateOptimalTradeSize (lines 673-675)
VARIABLES low, high, optimal

\* useChat (src/app/src/hooks/useChat.ts): the wallet and the option the hook
\* reads, its effect's phase, the sockets and timers it made, and its refs
VARIABLES walletConnected, autoConnect, phase, sockets, timers,
          wsRef, reconnectTimeoutRef, isConnected

\* useUserKeys (src/app/src/hooks/useUserKeys.ts): its two lists of keys
VARIABLES userKeys, ownedKeys

SearchVars == <<low, high, optimal>>

ChatVars == <<walletConnected, autoConnect, phase, sockets, timers,
              wsRef, reconnectTimeoutRef, isConnected>>

KeyVars == <<userKeys, ownedKeys>>

vars == <<currentSupply, amount, isBuy, basePrice, maxSlippage, op, result,
          reserveBalance, SearchVars, ChatVars, KeyVars>>

\* the parts of the state a specification does not use stay as they start
ReserveIdle == reserveBalance = 0

SearchIdle == low = 1 /\ high = 0 /\ optimal = 1

\* useRef(null), useRef(), useState(false) of lines 80-86, nothing made yet
ChatIdle ==
    /\ walletConnected = FALSE
    /\ autoConnect = FALSE
    /\ phase = "rendered"
    /\ sockets = << >>
    /\ timers = << >>
    /\ wsRef = 0
    /\ reconnectTimeoutRef = 0
    /\ isConnected = FALSE

\* useState([]) of lines 53-54
KeysIdle == userKeys = << >> /\ ownedKeys = << >>

(***************************************************************************)
(* CURVE_CONSTANTS                                                         *)
(***************************************************************************)
BASE_PRICE == 1000000
MAX_SUPPLY == 1000000
MIN_PRICE == 100000
\* new BN(CURVE_CONSTANTS.FEE_PERCENTAGE * 10000): 0.025 * 10000 is the double 250
FeeTenThousandths == 250
\* the default value of validateTrade's maxSlippage (5 percent), in hundredths
DefaultMaxSlippage == 500
\* least supply with Math.floor(Math.pow(1.1, supply) * 1000) >= 2^53
UnsafeSupply == 313

(***************************************************************************)
(* Bounds of the model                                                     *)
(***************************************************************************)
MaxSupplyDrawn == 8
MaxAmountDrawn == 4

(***************************************************************************)
(* Integer helpers                                                         *)
(***************************************************************************)
BNmax(a, b) == IF a >= b THEN a ELSE b

Min(a, b) == IF a <= b THEN a ELSE b

Abs(a) == IF a >= 0 THEN a ELSE -a

\* a.mul(b).div(c) for a >= 0, b >= 0, c > 0: floor(a * b / c)
MulDiv(a, b, c) == (a \div c) * b + ((a % c) * b) \div c

\* the remainder of a * b by c
MulMod(a, b, c) == ((a % c) * b) % c

\* a.mul(new BN(10000)).div(c), as two steps of one hundred
MulDiv10000(a, c) == MulDiv(a, 100, c) * 100 + (MulMod(a, 100, c) * 100) \div c

(***************************************************************************)
(* Math.pow(1.1, supply): decimal digits, least significant first          *)
(***************************************************************************)
RECURSIVE AddDigits(_, _, _)
AddDigits(a, b, carry) ==
    IF a = <<>> /\ b = <<>>
    THEN IF carry = 0 THEN <<>> ELSE <<carry>>
    ELSE LET x == IF a = <<>> THEN 0 ELSE Head(a)
             y == IF b = <<>> THEN 0 ELSE Head(b)
             t == x + y + carry
         IN  <<t % 10>> \o AddDigits(IF a = <<>> THEN <<>> ELSE Tail(a),
                                     IF b = <<>> THEN <<>> ELSE Tail(b),
                                     t \div 10)

\* PRICE_MULTIPLIER = 1.1 = 11 / 10: the digits of 11 * n from the digits of n
TimesEleven(d) == AddDigits(<<0>> \o d, d, 0)

RECURSIVE PowDigits(_, _)
PowDigits(d, n) == IF n <= 0 THEN d ELSE PowDigits(TimesEleven(d), n - 1)

RECURSIVE DigitsToInt(_)
DigitsToInt(d) == IF d = <<>> THEN 0 ELSE Head(d) + 10 * DigitsToInt(Tail(d))

DropDigits(d, n) == IF n >= Len(d) THEN <<>> ELSE SubSeq(d, n + 1, Len(d))

\* Math.floor(Math.pow(1.1, supply) * 1000) = floor(11^supply * 1000 / 10^supply);
\* the double agrees with the exact quotient for every supply below 225
MilliDigits(supply) ==
    DigitsToInt(DropDigits(PowDigits(<<0, 0, 0, 1>>, supply), supply))

\* the multipliers of the small supplies, computed once
MilliTableMax == 16

MilliTable == [s \in 0 .. MilliTableMax |-> MilliDigits(s)]

MilliMultiplier(supply) ==
    IF supply \in DOMAIN MilliTable THEN MilliTable[supply] ELSE MilliDigits(supply)

(***************************************************************************)
(* Results                                                                 *)
(***************************************************************************)
\* an uncaught exception (a failed BN assertion, or the Error thrown at line 446)
Throw == [kind |-> "throw"]

NoResult == [kind |-> "none"]

\* { isValid: false, error }, returned before line 653 computes the price impact
Invalid(error) ==
    [kind |-> "validation", isValid |-> FALSE, error |-> error,
     impactConsulted |-> FALSE, impact |-> 0]

\* the error of lines 655-658, whose message carries the impact
SlippageExceeded(impact) ==
    [kind |-> "validation", isValid |-> FALSE,
     error |-> "Price impact exceeds maximum slippage",
     impactConsulted |-> TRUE, impact |-> impact]

\* { isValid: true }
Valid == [kind |-> "validation", isValid |-> TRUE, error |-> "none",
          impactConsulted |-> TRUE, impact |-> 0]

(***************************************************************************)
(* calculatePriceAtSupply                                                  *)
(***************************************************************************)
\* line 489: new BN(Math.floor(multiplier * 1000)) fails its assertion
PriceThrows(supply) == supply > 0 /\ supply >= UnsafeSupply

\* mutant: BN.min where line 492 takes BN.max
PriceAtSupplyMinFloor(supply, base) ==
    IF supply <= 0
    THEN base
    ELSE Min(MulDiv(base, MilliMultiplier(supply), 1000), MIN_PRICE)

calculatePriceAtSupply(supply, base) ==
    IF supply <= 0
    THEN base
    ELSE BNmax(MulDiv(base, MilliMultiplier(supply), 1000), MIN_PRICE)

(***************************************************************************)
(* calculateMarketCap                                                      *)
(***************************************************************************)
MarketCapThrows(supply) == supply > 0 /\ PriceThrows(supply)

\* mutant: the price of the last unit sold, at supply - 1
MarketCapAtLastUnit(supply, base) ==
    IF supply <= 0 THEN 0 ELSE calculatePriceAtSupply(supply - 1, base) * supply

calculateMarketCap(supply, base) ==
    IF supply <= 0 THEN 0 ELSE calculatePriceAtSupply(supply, base) * supply

(***************************************************************************)
(* calculateBuyPrice                                                       *)
(***************************************************************************)
\* mutant: the fee rounded up
FeeRoundedUp(totalCost) ==
    MulDiv(totalCost, FeeTenThousandths, 10000)
        + (IF MulMod(totalCost, FeeTenThousandths, 10000) = 0 THEN 0 ELSE 1)

\* mutant: FEE_PERCENTAGE scaled by 1000 where line 422 scales it by 10000
FeePerThousand(totalCost) == MulDiv(totalCost, 25, 10000)

\* the fee of lines 422 and 460
Fee(totalCost) == MulDiv(totalCost, FeeTenThousandths, 10000)

\* mutant: the loop prices the units supply + 1 .. supply + amount
RECURSIVE BuyLoopOffByOne(_, _, _, _, _)
BuyLoopOffByOne(i, supply, amt, base, acc) ==
    IF i < amt
    THEN LET tokenIndex == supply + i + 1
             price == calculatePriceAtSupply(tokenIndex, base)
         IN  BuyLoopOffByOne(i + 1, supply, amt, base,
                     [totalCost |-> acc.totalCost + price, currentPrice |-> price])
    ELSE acc

\* mutant: i <= amount where line 415 tests i < amount
RECURSIVE BuyLoopInclusive(_, _, _, _, _)
BuyLoopInclusive(i, supply, amt, base, acc) ==
    IF i <= amt
    THEN LET tokenIndex == supply + i
             price == calculatePriceAtSupply(tokenIndex, base)
         IN  BuyLoopInclusive(i + 1, supply, amt, base,
                     [totalCost |-> acc.totalCost + price, currentPrice |-> price])
    ELSE acc

\* the loop of lines 415-420, from iteration i on; acc = [totalCost, currentPrice]
RECURSIVE BuyLoop(_, _, _, _, _)
BuyLoop(i, supply, amt, base, acc) ==
    IF i < amt
    THEN LET tokenIndex == supply + i
             price == calculatePriceAtSupply(tokenIndex, base)
         IN  BuyLoop(i + 1, supply, amt, base,
                     [totalCost |-> acc.totalCost + price, currentPrice |-> price])
    ELSE acc

\* a price of the loop or of calculateMarketCap throws (currentPrice.toNumber(),
\* line 424, throws only from 2^53 on, above every price of the supplies drawn)
BuyThrows(supply, amt) ==
    \/ \E i \in 0 .. (amt - 1) : PriceThrows(supply + i)
    \/ MarketCapThrows(supply + amt)

calculateBuyPrice(supply, amt, base) ==
    IF BuyThrows(supply, amt)
    THEN Throw
    ELSE LET acc == BuyLoop(0, supply, amt, base, [totalCost |-> 0, currentPrice |-> 0])
             fee == Fee(acc.totalCost)
         IN  [kind |-> "quote",
              price |-> acc.currentPrice,
              totalCost |-> acc.totalCost,
              fee |-> fee,
              netCost |-> acc.totalCost + fee,
              pricePerToken |-> acc.currentPrice,
              marketCap |-> calculateMarketCap(supply + amt, base)]

(***************************************************************************)
(* calculateSellPrice                                                      *)
(***************************************************************************)
\* mutant: the loop prices the units supply .. supply - amount + 1
RECURSIVE SellLoopOffByOne(_, _, _, _, _)
SellLoopOffByOne(i, supply, amt, base, acc) ==
    IF i < amt
    THEN LET tokenIndex == supply - i
             price == calculatePriceAtSupply(tokenIndex, base)
         IN  SellLoopOffByOne(i + 1, supply, amt, base,
                      [totalCost |-> acc.totalCost + price, currentPrice |-> price])
    ELSE acc

\* mutant: the loop leaves out the last unit sold
RECURSIVE SellLoopShort(_, _, _, _, _)
SellLoopShort(i, supply, amt, base, acc) ==
    IF i < amt - 1
    THEN LET tokenIndex == supply - (i + 1)
             price == calculatePriceAtSupply(tokenIndex, base)
         IN  SellLoopShort(i + 1, supply, amt, base,
                      [totalCost |-> acc.totalCost + price, currentPrice |-> price])
    ELSE acc

\* the loop of lines 453-458
RECURSIVE SellLoop(_, _, _, _, _)
SellLoop(i, supply, amt, base, acc) ==
    IF i < amt
    THEN LET tokenIndex == supply - (i + 1)
             price == calculatePriceAtSupply(tokenIndex, base)
         IN  SellLoop(i + 1, supply, amt, base,
                      [totalCost |-> acc.totalCost + price, currentPrice |-> price])
    ELSE acc

\* the Error of lines 445-447, or a price that throws
SellThrows(supply, amt) ==
    \/ supply < amt
    \/ \E i \in 0 .. (amt - 1) : PriceThrows(supply - (i + 1))
    \/ MarketCapThrows(supply - amt)

\* mutant: the fee added to the revenue where line 461 subtracts it
calculateSellPriceFeeAdded(supply, amt, base) ==
    IF SellThrows(supply, amt)
    THEN Throw
    ELSE LET acc == SellLoop(0, supply, amt, base, [totalCost |-> 0, currentPrice |-> 0])
             fee == Fee(acc.totalCost)
         IN  [kind |-> "quote",
              price |-> acc.currentPrice,
              totalCost |-> acc.totalCost,
              fee |-> fee,
              netCost |-> acc.totalCost + fee,
              pricePerToken |-> acc.currentPrice,
              marketCap |-> calculateMarketCap(supply - amt, base)]

calculateSellPrice(supply, amt, base) ==
    IF SellThrows(supply, amt)
    THEN Throw
    ELSE LET acc == SellLoop(0, supply, amt, base, [totalCost |-> 0, currentPrice |-> 0])
             fee == Fee(acc.totalCost)
         IN  [kind |-> "quote",
              price |-> acc.currentPrice,
              totalCost |-> acc.totalCost,
              fee |-> fee,
              netCost |-> acc.totalCost - fee,
              pricePerToken |-> acc.currentPrice,
              marketCap |-> calculateMarketCap(supply - amt, base)]

(***************************************************************************)
(* calculatePriceImpact, in hundredths of a percent                        *)
(***************************************************************************)
NewSupply(supply, amt, buy) == IF buy THEN supply + amt ELSE supply - amt

\* a price that throws, or priceDiff.mul(10000).div(currentPrice) with currentPrice = 0
ImpactThrows(supply, amt, buy, base) ==
    \/ PriceThrows(supply)
    \/ PriceThrows(NewSupply(supply, amt, buy))
    \/ calculatePriceAtSupply(supply, base) = 0

\* mutant: the ratio scaled by 100 where line 529 scales it by 10000
PriceImpactFraction(supply, amt, buy, base) ==
    LET currentPrice == calculatePriceAtSupply(supply, base)
        newPrice == calculatePriceAtSupply(NewSupply(supply, amt, buy), base)
        priceDiff == Abs(newPrice - currentPrice)
        impact == MulDiv(priceDiff, 100, currentPrice)
    IN  Min(impact, 10000)

\* mutant: line 528 without .abs()
PriceImpactSigned(supply, amt, buy, base) ==
    LET currentPrice == calculatePriceAtSupply(supply, base)
        newPrice == calculatePriceAtSupply(NewSupply(supply, amt, buy), base)
        priceDiff == newPrice - currentPrice
        impact == IF priceDiff >= 0
                  THEN MulDiv10000(priceDiff, currentPrice)
                  ELSE -MulDiv10000(-priceDiff, currentPrice)
    IN  Min(impact, 10000)

calculatePriceImpact(supply, amt, buy, base) ==
    LET currentPrice == calculatePriceAtSupply(supply, base)
        newPrice == calculatePriceAtSupply(NewSupply(supply, amt, buy), base)
        priceDiff == Abs(newPrice - currentPrice)
        impact == MulDiv10000(priceDiff, currentPrice)
    IN  Min(impact, 10000)

(***************************************************************************)
(* validateTrade                                                           *)
(***************************************************************************)
\* mutant: the bounds are tested on currentSupply alone, without the amount
validateTradeSupplyOnly(supply, amt, buy, slippage) ==
    IF amt <= 0
    THEN Invalid("Amount must be greater than 0")
    ELSE IF buy /\ supply > MAX_SUPPLY
    THEN Invalid("Exceeds maximum supply")
    ELSE IF ~buy /\ supply < 0
    THEN Invalid("Cannot sell more than current supply")
    ELSE IF ImpactThrows(supply, amt, buy, BASE_PRICE)
    THEN Throw
    ELSE LET priceImpact == calculatePriceImpact(supply, amt, buy, BASE_PRICE)
         IN  IF priceImpact > slippage
             THEN SlippageExceeded(priceImpact)
             ELSE Valid

\* mutant: priceImpact >= maxSlippage where line 654 tests priceImpact > maxSlippage
validateTradeInclusive(supply, amt, buy, slippage) ==
    IF amt <= 0
    THEN Invalid("Amount must be greater than 0")
    ELSE IF buy /\ supply + amt > MAX_SUPPLY
    THEN Invalid("Exceeds maximum supply")
    ELSE IF ~buy /\ amt > supply
    THEN Invalid("Cannot sell more than current supply")
    ELSE IF ImpactThrows(supply, amt, buy, BASE_PRICE)
    THEN Throw
    ELSE LET priceImpact == calculatePriceImpact(supply, amt, buy, BASE_PRICE)
         IN  IF priceImpact >= slippage
             THEN SlippageExceeded(priceImpact)
             ELSE Valid

\* mutant: the amount is tested after the bounds
validateTradeAmountLast(supply, amt, buy, slippage) ==
    IF buy /\ supply + amt > MAX_SUPPLY
    THEN Invalid("Exceeds maximum supply")
    ELSE IF ~buy /\ amt > supply
    THEN Invalid("Cannot sell more than current supply")
    ELSE IF amt <= 0
    THEN Invalid("Amount must be greater than 0")
    ELSE IF ImpactThrows(supply, amt, buy, BASE_PRICE)
    THEN Throw
    ELSE LET priceImpact == calculatePriceImpact(supply, amt, buy, BASE_PRICE)
         IN  IF priceImpact > slippage
             THEN SlippageExceeded(priceImpact)
             ELSE Valid

validateTrade(supply, amt, buy, slippage) ==
    IF amt <= 0
    THEN Invalid("Amount must be greater than 0")
    ELSE IF buy /\ supply + amt > MAX_SUPPLY
    THEN Invalid("Exceeds maximum supply")
    ELSE IF ~buy /\ amt > supply
    THEN Invalid("Cannot sell more than current supply")
    ELSE IF ImpactThrows(supply, amt, buy, BASE_PRICE)
    THEN Throw
    ELSE LET priceImpact == calculatePriceImpact(supply, amt, buy, BASE_PRICE)
         IN  IF priceImpact > slippage
             THEN SlippageExceeded(priceImpact)
             ELSE Valid

(***************************************************************************)
(* calculateSlippage, in hundredths of a percent                           *)
(***************************************************************************)
\* mutant: line 568 without Math.min
calculateSlippageUncapped(expectedPrice, actualPrice) ==
    IF expectedPrice = 0
    THEN 0
    ELSE MulDiv10000(Abs(actualPrice - expectedPrice), expectedPrice)

calculateSlippage(expectedPrice, actualPrice) ==
    IF expectedPrice = 0
    THEN 0
    ELSE Min(MulDiv10000(Abs(actualPrice - expectedPrice), expectedPrice), 10000)

(***************************************************************************)
(* calculateOptimalTradeSize                                               *)
(***************************************************************************)
\* line 674: the upper end of the search
TradeBound(supply, buy) == IF buy THEN MAX_SUPPLY - supply ELSE supply

Size(best) == [kind |-> "size", optimal |-> best]

\* mutant: impact < maxPriceImpact where line 681 tests impact <= maxPriceImpact
RECURSIVE OptimalLoopStrict(_, _, _, _, _, _, _)
OptimalLoopStrict(lo, hi, best, supply, maxPriceImpact, buy, base) ==
    IF lo <= hi
    THEN LET mid == (lo + hi) \div 2
         IN  IF ImpactThrows(supply, mid, buy, base)
             THEN Throw
             ELSE IF calculatePriceImpact(supply, mid, buy, base) < maxPriceImpact
             THEN OptimalLoopStrict(mid + 1, hi, mid, supply, maxPriceImpact, buy, base)
             ELSE OptimalLoopStrict(lo, mid - 1, best, supply, maxPriceImpact, buy, base)
    ELSE Size(best)

\* the loop of lines 677-687, from low = lo, high = hi, optimal = best on
RECURSIVE OptimalLoop(_, _, _, _, _, _, _)
OptimalLoop(lo, hi, best, supply, maxPriceImpact, buy, base) ==
    IF lo <= hi
    THEN LET mid == (lo + hi) \div 2
         IN  IF ImpactThrows(supply, mid, buy, base)
             THEN Throw
             ELSE IF calculatePriceImpact(supply, mid, buy, base) <= maxPriceImpact
             THEN OptimalLoop(mid + 1, hi, mid, supply, maxPriceImpact, buy, base)
             ELSE OptimalLoop(lo, mid - 1, best, supply, maxPriceImpact, buy, base)
    ELSE Size(best)

calculateOptimalTradeSize(supply, maxPriceImpact, buy, base) ==
    OptimalLoop(1, TradeBound(supply, buy), 1, supply, maxPriceImpact, buy, base)

(***************************************************************************)
(* The inputs a call is given                                              *)
(***************************************************************************)
Supplies == (0 .. MaxSupplyDrawn) \cup ((MAX_SUPPLY - 1) .. (MAX_SUPPLY + 1))

Amounts == (-1) .. MaxAmountDrawn

BasePrices == {0, 50000, BASE_PRICE, 1234567}

\* hundredths of a percent: 0, 5 (the default), 9.09, 10, 21 and 100 percent
MaxSlippages == {0, DefaultMaxSlippage, 909, 1000, 2100, 10000}

\* the prices calculateSlippage is given
ExpectedPrices == {0, 300, BASE_PRICE, 1100000}

ActualPrices == {0, 400, BASE_PRICE, 1100000, 2500000}

Init ==
    /\ currentSupply \in Supplies
    /\ amount \in Amounts
    /\ isBuy \in BOOLEAN
    /\ basePrice \in BasePrices
    /\ maxSlippage \in MaxSlippages
    /\ op = "none"
    /\ result = NoResult
    /\ ReserveIdle /\ SearchIdle /\ ChatIdle /\ KeysIdle

Inputs == <<currentSupply, amount, isBuy, basePrice, maxSlippage>>

CurveVars == <<currentSupply, amount, isBuy, basePrice, maxSlippage, op, result>>

\* what the pure calls leave alone besides their inputs
Others == <<reserveBalance, SearchVars, ChatVars, KeyVars>>

(***************************************************************************)
(* One action per exported function: the call on the drawn inputs          *)
(***************************************************************************)
PriceAtSupply ==
    /\ op = "none"
    /\ op' = "calculatePriceAtSupply"
    /\ result' = IF PriceThrows(currentSupply)
                 THEN Throw
                 ELSE [kind |-> "price",
                       price |-> calculatePriceAtSupply(currentSupply, basePrice)]
    /\ UNCHANGED <<Inputs, Others>>

BuyPrice ==
    /\ op = "none"
    /\ op' = "calculateBuyPrice"
    /\ result' = calculateBuyPrice(currentSupply, amount, basePrice)
    /\ UNCHANGED <<Inputs, Others>>

SellPrice ==
    /\ op = "none"
    /\ op' = "calculateSellPrice"
    /\ result' = calculateSellPrice(currentSupply, amount, basePrice)
    /\ UNCHANGED <<Inputs, Others>>

ValidateTrade ==
    /\ op = "none"
    /\ op' = "validateTrade"
    /\ result' = validateTrade(currentSupply, amount, isBuy, maxSlippage)
    /\ UNCHANGED <<Inputs, Others>>

MarketCap ==
    /\ op = "none"
    /\ op' = "calculateMarketCap"
    /\ result' = IF MarketCapThrows(currentSupply)
                 THEN Throw
                 ELSE [kind |-> "marketCap",
                       marketCap |-> calculateMarketCap(currentSupply, basePrice)]
    /\ UNCHANGED <<Inputs, Others>>

PriceImpact ==
    /\ op = "none"
    /\ op' = "calculatePriceImpact"
    /\ result' = IF ImpactThrows(currentSupply, amount, isBuy, basePrice)
                 THEN Throw
                 ELSE [kind |-> "impact",
                       impact |-> calculatePriceImpact(currentSupply, amount, isBuy,
                                                       basePrice)]
    /\ UNCHANGED <<Inputs, Others>>

\* calculateSlippage takes two prices of its own, kept in the result
Slippage ==
    /\ op = "none"
    /\ op' = "calculateSlippage"
    /\ \E expectedPrice \in ExpectedPrices, actualPrice \in ActualPrices :
           result' = [kind |-> "slippage",
                      expectedPrice |-> expectedPrice,
                      actualPrice |-> actualPrice,
                      slippage |-> calculateSlippage(expectedPrice, actualPrice)]
    /\ UNCHANGED <<Inputs, Others>>

\* maxPriceImpact is a percentage limit as maxSlippage is, and is drawn with it
OptimalTradeSize ==
    /\ op = "none"
    /\ op' = "calculateOptimalTradeSize"
    /\ result' = calculateOptimalTradeSize(currentSupply, maxSlippage, isBuy, basePrice)
    /\ UNCHANGED <<Inputs, Others>>

Next ==
    \/ PriceAtSupply
    \/ BuyPrice
    \/ SellPrice
    \/ ValidateTrade
    \/ MarketCap
    \/ PriceImpact
    \/ Slippage
    \/ OptimalTradeSize

Spec == Init /\ [][Next]_vars

(***************************************************************************)
(* A ledger of trades.  The engine prices trades and leaves the curve's    *)
(* state to its caller (getCurveState, lines 537-552, is handed            *)
(* reserveBalance).  Here a caller starts at supply 0 with an empty        *)
(* reserve and applies quotes: a buy adds its totalCost to the reserve and *)
(* its amount to the supply, a sell removes them.  op is the last trade.   *)
(***************************************************************************)
\* the ledger stops buying at this supply
MaxCurveSupply == 6

InitReserve ==
    /\ currentSupply = 0
    /\ reserveBalance = 0
    /\ amount = 0
    /\ isBuy = TRUE
    /\ basePrice \in BasePrices
    /\ maxSlippage = DefaultMaxSlippage
    /\ op = "none"
    /\ result = NoResult
    /\ SearchIdle /\ ChatIdle /\ KeysIdle

ReserveBuy ==
    \E n \in 1 .. MaxAmountDrawn :
        LET quote == calculateBuyPrice(currentSupply, n, basePrice)
        IN  /\ currentSupply + n <= MaxCurveSupply
            /\ currentSupply + n <= MAX_SUPPLY
            /\ quote.kind = "quote"
            /\ reserveBalance' = reserveBalance + quote.totalCost
            /\ currentSupply' = currentSupply + n
            /\ amount' = n
            /\ isBuy' = TRUE
            /\ op' = "buy"
            /\ result' = quote
            /\ UNCHANGED <<basePrice, maxSlippage, SearchVars, ChatVars, KeyVars>>

ReserveSell ==
    \E n \in 1 .. MaxAmountDrawn :
        LET quote == calculateSellPrice(currentSupply, n, basePrice)
        IN  /\ n <= currentSupply
            /\ quote.kind = "quote"
            /\ reserveBalance' = reserveBalance - quote.totalCost
            /\ currentSupply' = currentSupply - n
            /\ amount' = n
            /\ isBuy' = FALSE
            /\ op' = "sell"
            /\ result' = quote
            /\ UNCHANGED <<basePrice, maxSlippage, SearchVars, ChatVars, KeyVars>>

NextReserve == ReserveBuy \/ ReserveSell

SpecReserve == InitReserve /\ [][NextReserve]_vars

(***************************************************************************)
(* calculateOptimalTradeSize, one iteration of its loop at a time.  op is  *)
(* the position in the function: "none" before the call, "loop" at the     *)
(* test of line 677, "returned" after line 689, "threw" when               *)
(* calculatePriceImpact threw out of the loop.                             *)
(***************************************************************************)
\* mutant: low = mid where line 683 sets low = mid + 1
NextIntervalStuck(lo, hi, best, mid, impact, maxPriceImpact) ==
    IF impact <= maxPriceImpact
    THEN [low |-> mid, high |-> hi, optimal |-> mid]
    ELSE [low |-> lo, high |-> mid - 1, optimal |-> best]

\* lines 681-686: the interval and the candidate after one iteration
NextInterval(lo, hi, best, mid, impact, maxPriceImpact) ==
    IF impact <= maxPriceImpact
    THEN [low |-> mid + 1, high |-> hi, optimal |-> mid]
    ELSE [low |-> lo, high |-> mid - 1, optimal |-> best]

InitSearch ==
    /\ currentSupply \in Supplies
    /\ isBuy \in BOOLEAN
    /\ basePrice \in BasePrices
    /\ maxSlippage \in MaxSlippages
    /\ amount = 0
    /\ op = "none"
    /\ result = NoResult
    /\ SearchIdle
    /\ ReserveIdle /\ ChatIdle /\ KeysIdle

SearchRest == <<Inputs, reserveBalance, ChatVars, KeyVars>>

\* lines 673-675
SearchStart ==
    /\ op = "none"
    /\ op' = "loop"
    /\ low' = 1
    /\ high' = TradeBound(currentSupply, isBuy)
    /\ optimal' = 1
    /\ UNCHANGED <<result, SearchRest>>

\* lines 677-687: one pass through the body of the loop
SearchIterate ==
    /\ op = "loop"
    /\ low <= high
    /\ LET mid == (low + high) \div 2
       IN  IF ImpactThrows(currentSupply, mid, isBuy, basePrice)
           THEN /\ op' = "threw"
                /\ result' = Throw
                /\ UNCHANGED SearchVars
           ELSE LET impact == calculatePriceImpact(currentSupply, mid, isBuy, basePrice)
                    next == NextInterval(low, high, optimal, mid, impact, maxSlippage)
                IN  /\ low' = next.low
                    /\ high' = next.high
                    /\ optimal' = next.optimal
                    /\ UNCHANGED <<op, result>>
    /\ UNCHANGED SearchRest

\* lines 677 and 689: the test fails and the function returns
SearchReturn ==
    /\ op = "loop"
    /\ ~(low <= high)
    /\ op' = "returned"
    /\ result' = Size(optimal)
    /\ UNCHANGED <<SearchVars, SearchRest>>

NextSearch == SearchStart \/ SearchIterate \/ SearchReturn

\* the call runs to its end: nothing suspends a synchronous function
SpecSearch == InitSearch /\ [][NextSearch]_vars /\ WF_vars(NextSearch)

(***************************************************************************)
(* useChat (src/app/src/hooks/useChat.ts): one instance of the hook.       *)
(* sockets lists the WebSockets connectWebSocket made, each "connecting",  *)
(* "open", "closing" (close() called, close event not yet delivered) or    *)
(* "closed"; timers lists the reconnect timers, each "pending", "fired" or *)
(* "cleared".  wsRef and reconnectTimeoutRef are indices into them, 0 for  *)
(* null / undefined.  phase is "rendered" before the effect of lines       *)
(* 401-415 ran, "mounted" after it, "unmounted" after its cleanup at       *)
(* unmount.  The wallet may connect and disconnect, which re-runs the      *)
(* effect (its dependencies, line 415); the autoConnect option stays.      *)
(* A socket exists only if the connectWebSocket that made it saw a         *)
(* connected wallet (line 92), and its onclose hands that same closure to  *)
(* setTimeout (line 122), so a timer's connectWebSocket sees a connected   *)
(* wallet whatever the wallet is by then.                                  *)
(***************************************************************************)
\* the hook makes at most this many sockets
MaxSockets == 3

SocketIds == 1 .. Len(sockets)

TimerIds == 1 .. Len(timers)

\* the sockets that are connecting or open
Live == {s \in SocketIds : sockets[s] \in {"connecting", "open"}}

InitChat ==
    /\ walletConnected \in BOOLEAN
    /\ autoConnect \in BOOLEAN
    /\ phase = "rendered"
    /\ sockets = << >>
    /\ timers = << >>
    /\ wsRef = 0
    /\ reconnectTimeoutRef = 0
    /\ isConnected = FALSE
    /\ currentSupply = 0 /\ amount = 0 /\ isBuy = TRUE /\ basePrice = BASE_PRICE
    /\ maxSlippage = DefaultMaxSlippage /\ op = "none" /\ result = NoResult
    /\ ReserveIdle /\ SearchIdle /\ KeysIdle

ChatRest == <<CurveVars, reserveBalance, SearchVars, KeyVars>>

\* lines 91-132 on the sockets socks: returns at line 92 without a wallet,
\* else makes a socket and stores it in wsRef
connectWebSocket(wallet, socks) ==
    IF wallet
    THEN /\ sockets' = Append(socks, "connecting")
         /\ wsRef' = Len(socks) + 1
    ELSE /\ sockets' = socks
         /\ UNCHANGED wsRef

\* lines 408-410: wsRef.current.close()
CleanedSockets ==
    IF wsRef # 0 /\ sockets[wsRef] \in {"connecting", "open"}
    THEN [sockets EXCEPT ![wsRef] = "closing"]
    ELSE sockets

\* lines 411-413: clearTimeout(reconnectTimeoutRef.current)
CleanedTimers ==
    IF reconnectTimeoutRef # 0 /\ timers[reconnectTimeoutRef] = "pending"
    THEN [timers EXCEPT ![reconnectTimeoutRef] = "cleared"]
    ELSE timers

\* lines 401-405: the effect runs after the first render
ChatEffect ==
    /\ phase = "rendered"
    /\ phase' = "mounted"
    /\ IF walletConnected /\ autoConnect
       THEN connectWebSocket(walletConnected, sockets)
       ELSE UNCHANGED <<sockets, wsRef>>
    /\ UNCHANGED <<walletConnected, autoConnect, timers, reconnectTimeoutRef,
                   isConnected, ChatRest>>

\* line 415: connected and publicKey are dependencies of the effect, so a
\* change of the wallet runs the cleanup and then the effect again
WalletChanges ==
    /\ phase # "unmounted"
    /\ walletConnected' = ~walletConnected
    /\ IF phase = "mounted"
       THEN /\ timers' = CleanedTimers
            /\ IF walletConnected' /\ autoConnect
               THEN /\ Len(sockets) < MaxSockets
                    /\ connectWebSocket(walletConnected', CleanedSockets)
               ELSE /\ sockets' = CleanedSockets
                    /\ UNCHANGED wsRef
       ELSE UNCHANGED <<sockets, wsRef, timers>>
    /\ UNCHANGED <<autoConnect, phase, reconnectTimeoutRef, isConnected, ChatRest>>

\* lines 97-109: ws.onopen
SocketOpens(s) ==
    /\ sockets[s] = "connecting"
    /\ sockets' = [sockets EXCEPT ![s] = "open"]
    /\ isConnected' = TRUE
    /\ UNCHANGED <<walletConnected, autoConnect, phase, timers, wsRef,
                   reconnectTimeoutRef, ChatRest>>

\* lines 119-124: ws.onclose, when the connection fails or the server closes
\* it, or when the close event follows a close() of the hook
SocketCloses(s) ==
    /\ sockets[s] \in {"connecting", "open", "closing"}
    /\ sockets' = [sockets EXCEPT ![s] = "closed"]
    /\ isConnected' = FALSE
    /\ IF autoConnect
       THEN /\ timers' = Append(timers, "pending")
            /\ reconnectTimeoutRef' = Len(timers) + 1
       ELSE UNCHANGED <<timers, reconnectTimeoutRef>>
    /\ UNCHANGED <<walletConnected, autoConnect, phase, wsRef, ChatRest>>

\* line 122: the timer calls the connectWebSocket that made the closed socket
TimerFires(t) ==
    /\ timers[t] = "pending"
    /\ Len(sockets) < MaxSockets
    /\ timers' = [timers EXCEPT ![t] = "fired"]
    /\ connectWebSocket(TRUE, sockets)
    /\ UNCHANGED <<walletConnected, autoConnect, phase, reconnectTimeoutRef,
                   isConnected, ChatRest>>

\* lines 407-414: the cleanup of the effect, at unmount
ChatCleanup ==
    /\ phase = "mounted"
    /\ phase' = "unmounted"
    /\ sockets' = CleanedSockets
    /\ timers' = CleanedTimers
    /\ UNCHANGED <<walletConnected, autoConnect, wsRef, reconnectTimeoutRef,
                   isConnected, ChatRest>>

NextChat ==
    \/ ChatEffect
    \/ WalletChanges
    \/ \E s \in SocketIds : SocketOpens(s)
    \/ \E s \in SocketIds : SocketCloses(s)
    \/ \E t \in TimerIds : TimerFires(t)
    \/ ChatCleanup

SpecChat == InitChat /\ [][NextChat]_vars

(***************************************************************************)
(* useUserKeys (src/app/src/hooks/useUserKeys.ts): the lists userKeys and  *)
(* ownedKeys under createUserKey, buyKey and sellKey, one call at a time,  *)
(* each call seeing the lists of the latest render.  A key keeps the       *)
(* fields publicKey, totalSupply, balance, isOwned, currentPrice and       *)
(* marketCap of UserKey; name, symbol, holders and the 24 h statistics are *)
(* read by no condition of the three calls and are left out, as are        *)
(* keyTransactions, isLoading and error.  Keypair.generate() yields the    *)
(* next unused number as the publicKey.  Prices are in units of 1/16000    *)
(* SOL, so that supply^2 / 16000 * amount is the integer supply^2 * amount *)
(* and the minimum 0.001 SOL is 16.  A call fails without touching the     *)
(* lists when the wallet is not ready (lines 66-69), when the key is not   *)
(* found or the balance is short, or when the transaction is not signed    *)
(* or confirmed (the catch blocks).                                        *)
(***************************************************************************)
\* createUserKey is called at most this many times
MaxKeys == 2

\* buyKey stops at this totalSupply
MaxKeySupply == 4

\* the largest amount and initialSupply drawn
MaxKeyAmount == 2

KeyAmounts == 1 .. MaxKeyAmount

InitialSupplies == 0 .. MaxKeyAmount

\* 0.001 SOL in units of 1/16000 SOL
MinKeyPrice == 16

\* lines 59-63
calculateKeyPrice(supply, amt) == BNmax(supply * supply * amt, MinKeyPrice)

\* Array.find by publicKey: the index of the key in list, 0 when it has none
IndexOf(list, keyPublicKey) ==
    IF \E i \in 1 .. Len(list) : list[i].publicKey = keyPublicKey
    THEN CHOOSE i \in 1 .. Len(list) :
             /\ list[i].publicKey = keyPublicKey
             /\ \A j \in 1 .. (i - 1) : list[j].publicKey # keyPublicKey
    ELSE 0

\* what a call leaves in op and result: its outcome, its arguments, its price
CallResult(ok, keyPublicKey, amt, price) ==
    [kind |-> "call", ok |-> ok, keyPublicKey |-> keyPublicKey,
     amount |-> amt, price |-> price]

InitKeys ==
    /\ userKeys = << >>
    /\ ownedKeys = << >>
    /\ currentSupply = 0 /\ amount = 0 /\ isBuy = TRUE /\ basePrice = BASE_PRICE
    /\ maxSlippage = DefaultMaxSlippage /\ op = "none" /\ result = NoResult
    /\ ReserveIdle /\ SearchIdle /\ ChatIdle

KeysRest == <<Inputs, reserveBalance, SearchVars, ChatVars>>

\* lines 65-139
CreateUserKey ==
    \E initialSupply \in InitialSupplies, walletReady \in BOOLEAN, confirmed \in BOOLEAN :
        LET newUserKey == [publicKey |-> Len(userKeys) + 1,
                           totalSupply |-> initialSupply,
                           currentPrice |-> calculateKeyPrice(0, 1),
                           marketCap |-> calculateKeyPrice(0, initialSupply),
                           isOwned |-> TRUE,
                           balance |-> initialSupply]
        IN  /\ Len(userKeys) < MaxKeys
            /\ op' = "createUserKey"
            /\ IF walletReady /\ confirmed
               THEN /\ userKeys' = <<newUserKey>> \o userKeys
                    /\ ownedKeys' = <<newUserKey>> \o ownedKeys
                    /\ result' = CallResult(TRUE, newUserKey.publicKey, initialSupply, 0)
               ELSE /\ UNCHANGED KeyVars
                    /\ result' = CallResult(FALSE, 0, initialSupply, 0)
            /\ UNCHANGED KeysRest

\* lines 216-220: the update of a key that is already in ownedKeys
BoughtOwned(key, amt) == [key EXCEPT !.balance = key.balance + amt]

\* lines 191-206: the update of the key in userKeys
BoughtUser(key, amt) ==
    LET newSupply == key.totalSupply + amt
    IN  [key EXCEPT !.totalSupply = newSupply,
                    !.currentPrice = calculateKeyPrice(newSupply, 1),
                    !.marketCap = calculateKeyPrice(newSupply, newSupply),
                    !.balance = key.balance + amt,
                    !.isOwned = TRUE]

\* lines 296-310
SoldUser(key, amt) ==
    LET newSupply == key.totalSupply - amt
    IN  [key EXCEPT !.totalSupply = newSupply,
                    !.currentPrice = calculateKeyPrice(newSupply, 1),
                    !.marketCap = calculateKeyPrice(newSupply, newSupply),
                    !.balance = key.balance - amt,
                    !.isOwned = key.balance - amt > 0]

\* lines 312-320: the owned keys after the sale, the emptied one filtered out
RECURSIVE SoldOwned(_, _, _)
SoldOwned(list, keyPublicKey, amt) ==
    IF list = << >>
    THEN << >>
    ELSE LET key == Head(list)
             rest == SoldOwned(Tail(list), keyPublicKey, amt)
         IN  IF key.publicKey # keyPublicKey
             THEN <<key>> \o rest
             ELSE IF key.balance - amt > 0
             THEN <<[key EXCEPT !.balance = key.balance - amt]>> \o rest
             ELSE rest

\* lines 141-245
BuyKey ==
    \E keyPublicKey \in 1 .. MaxKeys, amt \in KeyAmounts,
       walletReady \in BOOLEAN, confirmed \in BOOLEAN :
        LET u == IndexOf(userKeys, keyPublicKey)
            o == IndexOf(ownedKeys, keyPublicKey)
            price == calculateKeyPrice(userKeys[u].totalSupply, amt)
        IN  /\ u # 0 => userKeys[u].totalSupply + amt <= MaxKeySupply
            /\ op' = "buyKey"
            /\ IF walletReady /\ u # 0 /\ confirmed
               THEN /\ userKeys' = [i \in 1 .. Len(userKeys) |->
                                       IF userKeys[i].publicKey = keyPublicKey
                                       THEN BoughtUser(userKeys[i], amt)
                                       ELSE userKeys[i]]
                    /\ ownedKeys' =
                           IF o = 0
                           THEN Append(ownedKeys,
                                       [userKeys[u] EXCEPT !.balance = amt,
                                                           !.isOwned = TRUE])
                           ELSE [i \in 1 .. Len(ownedKeys) |->
                                    IF ownedKeys[i].publicKey = keyPublicKey
                                    THEN BoughtOwned(ownedKeys[i], amt)
                                    ELSE ownedKeys[i]]
                    /\ result' = CallResult(TRUE, keyPublicKey, amt, price)
               ELSE /\ UNCHANGED KeyVars
                    /\ result' = CallResult(FALSE, keyPublicKey, amt, 0)
            /\ UNCHANGED KeysRest

\* lines 247-344
SellKey ==
    \E keyPublicKey \in 1 .. MaxKeys, amt \in KeyAmounts,
       walletReady \in BOOLEAN, confirmed \in BOOLEAN :
        LET o == IndexOf(ownedKeys, keyPublicKey)
            price == calculateKeyPrice(ownedKeys[o].totalSupply - amt, amt)
        IN  /\ op' = "sellKey"
            /\ IF walletReady /\ o # 0 /\ ownedKeys[o].balance >= amt /\ confirmed
               THEN /\ userKeys' = [i \in 1 .. Len(userKeys) |->
                                       IF userKeys[i].publicKey = keyPublicKey
                                       THEN SoldUser(userKeys[i], amt)
                                       ELSE userKeys[i]]
                    /\ ownedKeys' = SoldOwned(ownedKeys, keyPublicKey, amt)
                    /\ result' = CallResult(TRUE, keyPublicKey, amt, price)
               ELSE /\ UNCHANGED KeyVars
                    /\ result' = CallResult(FALSE, keyPublicKey, amt, 0)
            /\ UNCHANGED KeysRest

NextKeys == CreateUserKey \/ BuyKey \/ SellKey

SpecKeys == InitKeys /\ [][NextKeys]_vars

(***************************************************************************)
(* Properties                                                              *)
(***************************************************************************)
\* the sum of calculatePriceAtSupply(s) for s = lo .. hi
RECURSIVE SumPrices(_, _, _)
SumPrices(lo, hi, base) ==
    IF hi < lo THEN 0 ELSE SumPrices(lo, hi - 1, base) + calculatePriceAtSupply(hi, base)

\* the decimal digits of n >= 0, least significant first
RECURSIVE IntToDigits(_)
IntToDigits(n) == IF n < 10 THEN <<n>> ELSE <<n % 10>> \o IntToDigits(n \div 10)

\* floor(base * 1.1^supply), with the exact power 11^supply / 10^supply
ExactPrice(supply, base) ==
    DigitsToInt(DropDigits(PowDigits(IntToDigits(base), supply), supply))

BuyInBounds == currentSupply >= 0 /\ amount >= 1 /\ currentSupply + amount <= MAX_SUPPLY

SellInBounds == amount >= 1 /\ amount <= currentSupply

\* C1: a buy within bounds that returns a quote has totalCost equal to the sum
\* of calculatePriceAtSupply(currentSupply + i) for i = 0 .. amount - 1; a buy
\* whose prices are all below the unsafe range does return a quote.
C1_BuyTotalIsSumOfPrices ==
    (op = "calculateBuyPrice" /\ BuyInBounds) =>
        /\ result.kind = "quote" =>
               result.totalCost
                   = SumPrices(currentSupply, currentSupply + amount - 1, basePrice)
        /\ currentSupply + amount <= MaxSupplyDrawn + MaxAmountDrawn =>
               result.kind = "quote"

C1_Witness ==
    /\ op = "calculateBuyPrice"
    /\ currentSupply = 3 /\ amount = 4 /\ basePrice = BASE_PRICE
    /\ result.kind = "quote"
    /\ result.totalCost = 1331000 + 1464000 + 1610000 + 1771000

\* C2: a sell with 1 <= amount <= currentSupply that returns a quote has
\* totalCost equal to the sum of calculatePriceAtSupply(currentSupply - i) for
\* i = 1 .. amount; a sell from a supply below the unsafe range returns a quote.
C2_SellTotalIsSumOfPrices ==
    (op = "calculateSellPrice" /\ SellInBounds) =>
        /\ result.kind = "quote" =>
               result.totalCost
                   = SumPrices(currentSupply - amount, currentSupply - 1, basePrice)
        /\ currentSupply <= MaxSupplyDrawn => result.kind = "quote"

C2_Witness ==
    /\ op = "calculateSellPrice"
    /\ currentSupply = 5 /\ amount = 3 /\ basePrice = BASE_PRICE
    /\ result.kind = "quote"
    /\ result.totalCost = 1464000 + 1331000 + 1210000

\* C3: fee conservation: the quote of a buy within bounds has
\* fee = floor(totalCost * 0.025) = floor(totalCost / 40) and
\* netCost - totalCost = fee; the quote of a sell within bounds has the same
\* fee and totalCost - netCost = fee.
C3_FeeConservation ==
    /\ (op = "calculateBuyPrice" /\ BuyInBounds /\ result.kind = "quote") =>
           /\ result.fee = result.totalCost \div 40
           /\ result.netCost - result.totalCost = result.fee
    /\ (op = "calculateSellPrice" /\ SellInBounds /\ result.kind = "quote") =>
           /\ result.fee = result.totalCost \div 40
           /\ result.totalCost - result.netCost = result.fee

C3_Witness ==
    /\ op = "calculateSellPrice"
    /\ currentSupply = 1 /\ amount = 1 /\ basePrice = 1234567
    /\ result.kind = "quote"
    /\ result.totalCost = 1234567
    /\ result.fee = 30864
    /\ result.netCost = 1203703

\* C4 (as claimed): at the default basePrice, for every supply s >= 0 whose
\* price is computed, calculatePriceAtSupply(s) = max(MIN_PRICE,
\* floor(basePrice * 1.1^s)) with the exact power and one outer floor.
C4_PriceIsExactFloor ==
    (op = "calculatePriceAtSupply" /\ basePrice = BASE_PRICE /\ currentSupply >= 0
        /\ result.kind = "price") =>
        result.price = BNmax(MIN_PRICE, ExactPrice(currentSupply, basePrice))

\* C5 (as claimed): floor invariant: for every supply s >= 0 and every basePrice
\* passed, a computed calculatePriceAtSupply(s, basePrice) is >= MIN_PRICE.
C5_PriceAtLeastMinPrice ==
    (op = "calculatePriceAtSupply" /\ currentSupply >= 0 /\ result.kind = "price") =>
        result.price >= MIN_PRICE

\* C6: monotonicity: for a fixed basePrice and 0 <= s < MAX_SUPPLY, the price
\* computed at s is at most the price computed at s + 1.
C6_PriceMonotone ==
    (op = "calculatePriceAtSupply" /\ currentSupply >= 0 /\ currentSupply < MAX_SUPPLY
        /\ result.kind = "price" /\ ~PriceThrows(currentSupply + 1)) =>
        result.price <= calculatePriceAtSupply(currentSupply + 1, basePrice)

C6_Witness ==
    /\ op = "calculatePriceAtSupply"
    /\ currentSupply = 4 /\ basePrice = BASE_PRICE
    /\ result.kind = "price"
    /\ result.price = 1464000
    /\ calculatePriceAtSupply(currentSupply + 1, basePrice) = 1610000

\* C7: buy/sell symmetry: the totalCost of buying n units at supply s equals
\* the totalCost of selling n units at supply s + n, whenever both calls
\* return a quote.
C7_BuySellSymmetry ==
    (op = "calculateBuyPrice" /\ BuyInBounds /\ result.kind = "quote") =>
        LET sell == calculateSellPrice(currentSupply + amount, amount, basePrice)
        IN  sell.kind = "quote" => result.totalCost = sell.totalCost

C7_Witness ==
    /\ op = "calculateBuyPrice"
    /\ currentSupply = 2 /\ amount = 3 /\ basePrice = BASE_PRICE
    /\ result.kind = "quote"
    /\ result.totalCost = 4005000
    /\ calculateSellPrice(5, 3, BASE_PRICE).kind = "quote"
    /\ calculateSellPrice(5, 3, BASE_PRICE).totalCost = 4005000

\* C8: validation boundary: for a positive amount and any maxSlippage, a buy
\* with currentSupply + amount > MAX_SUPPLY is Invalid with the
\* capacity-exceeded reason and a sell with amount > currentSupply is Invalid
\* with the insufficient-supply reason; the price impact is computed in neither.
C8_ValidationBoundary ==
    (op = "validateTrade" /\ amount > 0) =>
        /\ (isBuy /\ currentSupply + amount > MAX_SUPPLY) =>
               /\ result.kind = "validation"
               /\ ~result.isValid
               /\ result.error = "Exceeds maximum supply"
               /\ ~result.impactConsulted
        /\ (~isBuy /\ amount > currentSupply) =>
               /\ result.kind = "validation"
               /\ ~result.isValid
               /\ result.error = "Cannot sell more than current supply"
               /\ ~result.impactConsulted

C8_Witness ==
    /\ op = "validateTrade"
    /\ currentSupply = 999999 /\ amount = 2 /\ isBuy /\ maxSlippage = DefaultMaxSlippage
    /\ result = Invalid("Exceeds maximum supply")

\* C9: a trade with amount >= 1 within bounds, when validateTrade returns, is
\* Invalid(slippage-exceeded) exactly when its price impact exceeds
\* maxSlippage, and Valid otherwise; validateTrade returns whenever
\* calculatePriceImpact does.
C9_SlippageDecides ==
    (op = "validateTrade" /\ amount >= 1
        /\ (IF isBuy THEN currentSupply + amount <= MAX_SUPPLY
                     ELSE amount <= currentSupply)) =>
        IF ImpactThrows(currentSupply, amount, isBuy, BASE_PRICE)
        THEN result = Throw
        ELSE LET impact == calculatePriceImpact(currentSupply, amount, isBuy, BASE_PRICE)
             IN  /\ result.kind = "validation"
                 /\ impact > maxSlippage =>
                        /\ ~result.isValid
                        /\ result.error = "Price impact exceeds maximum slippage"
                        /\ result.impact = impact
                 /\ impact <= maxSlippage => result = Valid

C9_Witness ==
    /\ op = "validateTrade"
    /\ currentSupply = 0 /\ amount = 1 /\ isBuy /\ maxSlippage = 1000
    /\ calculatePriceImpact(0, 1, TRUE, BASE_PRICE) = 1000
    /\ result = Valid

\* C10: validateTrade tests the amount first: an amount <= 0 is Invalid with
\* the non-positive-amount reason for every currentSupply, direction and
\* maxSlippage, also where a supply bound is exceeded too.
C10_AmountCheckedFirst ==
    (op = "validateTrade" /\ amount <= 0) =>
        result = Invalid("Amount must be greater than 0")

C10_Witness ==
    /\ op = "validateTrade"
    /\ amount = 0 /\ isBuy /\ currentSupply + amount > MAX_SUPPLY
    /\ result = Invalid("Amount must be greater than 0")

\* x * y <= 10000 * d, for 0 <= x <= 10001, y >= 0 and d >= 0
ProductAtMost(x, y, d) ==
    \/ MulDiv(y, x, 10000) < d
    \/ MulDiv(y, x, 10000) = d /\ MulMod(y, x, 10000) = 0

\* x * y = 10000 * d
ProductEquals(x, y, d) ==
    MulDiv(y, x, 10000) = d /\ MulMod(y, x, 10000) = 0

\* C11 (as claimed): at the default basePrice, the amount r returned by
\* calculateOptimalTradeSize has a price impact, and that impact is at most
\* maxPriceImpact.
C11_OptimalRespectsLimit ==
    (op = "calculateOptimalTradeSize" /\ basePrice = BASE_PRICE
        /\ result.kind = "size") =>
        /\ ~ImpactThrows(currentSupply, result.optimal, isBuy, basePrice)
        /\ calculatePriceImpact(currentSupply, result.optimal, isBuy, basePrice)
               <= maxSlippage

\* C12: the amount r returned by calculateOptimalTradeSize is maximal: when
\* r + 1 is within the bound (MAX_SUPPLY - currentSupply for a buy,
\* currentSupply for a sell), the price impact of r + 1 exceeds maxPriceImpact.
C12_OptimalIsMaximal ==
    (op = "calculateOptimalTradeSize" /\ result.kind = "size"
        /\ result.optimal + 1 <= TradeBound(currentSupply, isBuy)) =>
        /\ ~ImpactThrows(currentSupply, result.optimal + 1, isBuy, basePrice)
        /\ calculatePriceImpact(currentSupply, result.optimal + 1, isBuy, basePrice)
               > maxSlippage

C12_Witness ==
    /\ op = "calculateOptimalTradeSize"
    /\ currentSupply = 5 /\ ~isBuy /\ maxSlippage = 2100 /\ basePrice = BASE_PRICE
    /\ result = Size(2)
    /\ calculatePriceImpact(5, 2, FALSE, BASE_PRICE) = 1732
    /\ calculatePriceImpact(5, 3, FALSE, BASE_PRICE) = 2484

\* C13 (as claimed): for every currentSupply in 0 .. MAX_SUPPLY the amount
\* returned by calculateOptimalTradeSize lies in [1, bound].
C13_OptimalWithinBound ==
    (op = "calculateOptimalTradeSize" /\ currentSupply >= 0
        /\ currentSupply <= MAX_SUPPLY /\ result.kind = "size") =>
        /\ result.optimal >= 1
        /\ result.optimal <= TradeBound(currentSupply, isBuy)

\* C14 (as claimed): calculateBuyPrice returns a capacity-exceeded error, and
\* no quote, whenever amount <= 0 or currentSupply + amount > MAX_SUPPLY.
C14_BuyRejectsOutOfBounds ==
    (op = "calculateBuyPrice"
        /\ (amount <= 0 \/ currentSupply + amount > MAX_SUPPLY)) =>
        /\ result.kind = "error"
        /\ result.error = "Exceeds maximum supply"

\* C15 (as claimed): calculateSellPrice reports an insufficient-supply error
\* as a returned value, neither an exception nor a quote, whenever
\* amount <= 0 or amount > currentSupply.
C15_SellReturnsError ==
    (op = "calculateSellPrice" /\ (amount <= 0 \/ amount > currentSupply)) =>
        /\ result.kind = "error"
        /\ result.error = "Cannot sell more tokens than current supply"

\* C16 (as claimed): at the default basePrice, a computed price impact is
\* exactly min(100, |price(newSupply) - price(currentSupply)|
\* / price(currentSupply) * 100) with no other rounding, and lies in [0, 100]:
\* in hundredths of a percent, either 10000 or the exact quotient.
C16_ImpactIsExact ==
    (op = "calculatePriceImpact" /\ basePrice = BASE_PRICE /\ amount >= 1
        /\ result.kind = "impact") =>
        LET currentPrice == calculatePriceAtSupply(currentSupply, basePrice)
            newPrice ==
                calculatePriceAtSupply(NewSupply(currentSupply, amount, isBuy), basePrice)
            priceDiff == Abs(newPrice - currentPrice)
        IN  /\ result.impact >= 0
            /\ result.impact <= 10000
            /\ priceDiff >= currentPrice => result.impact = 10000
            /\ priceDiff < currentPrice =>
                   ProductEquals(result.impact, currentPrice, priceDiff)

\* C17: the price impact is monotone in the amount: for a fixed currentSupply
\* and direction and a >= 1 with a + 1 within the bound, the impact computed
\* for a is at most the impact computed for a + 1.
C17_ImpactMonotoneInAmount ==
    (op = "calculatePriceImpact" /\ amount >= 1
        /\ amount + 1 <= TradeBound(currentSupply, isBuy)
        /\ result.kind = "impact"
        /\ ~ImpactThrows(currentSupply, amount + 1, isBuy, basePrice)) =>
        result.impact
            <= calculatePriceImpact(currentSupply, amount + 1, isBuy, basePrice)

C17_Witness ==
    /\ op = "calculatePriceImpact"
    /\ currentSupply = 5 /\ amount = 2 /\ ~isBuy /\ basePrice = BASE_PRICE
    /\ result.kind = "impact"
    /\ result.impact = 1732
    /\ calculatePriceImpact(5, 3, FALSE, BASE_PRICE) = 2484

C19_MarketCap ==
    /\ (op = "calculateMarketCap" /\ currentSupply >= 0
            /\ result.kind = "marketCap") =>
           result.marketCap
               = calculatePriceAtSupply(currentSupply, basePrice) * currentSupply
    /\ (op = "calculateBuyPrice" /\ BuyInBounds /\ result.kind = "quote") =>
           result.marketCap
               = calculatePriceAtSupply(currentSupply + amount, basePrice)
                     * (currentSupply + amount)
    /\ (op = "calculateSellPrice" /\ SellInBounds /\ result.kind = "quote") =>
           result.marketCap
               = calculatePriceAtSupply(currentSupply - amount, basePrice)
                     * (currentSupply - amount)

C19_Witness ==
    /\ op = "calculateBuyPrice"
    /\ currentSupply = 2 /\ amount = 2 /\ basePrice = BASE_PRICE
    /\ result.kind = "quote"
    /\ result.marketCap = 1464000 * 4

\* C20: with the shipped constants, buying 1 unit at supply 0 has totalCost
\* 1,000,000, fee 25,000 and netCost 1,025,000, and selling 1 unit at supply 1
\* has totalCost 1,000,000, fee 25,000 and netCost 975,000.
C20_ConcreteQuotes ==
    /\ (BASE_PRICE = 1000000 /\ MIN_PRICE = 100000 /\ FeeTenThousandths = 250)
    /\ (op = "calculateBuyPrice" /\ currentSupply = 0 /\ amount = 1
            /\ basePrice = BASE_PRICE) =>
           /\ result.kind = "quote"
           /\ result.totalCost = 1000000
           /\ result.fee = 25000
           /\ result.netCost = 1025000
    /\ (op = "calculateSellPrice" /\ currentSupply = 1 /\ amount = 1
            /\ basePrice = BASE_PRICE) =>
           /\ result.kind = "quote"
           /\ result.totalCost = 1000000
           /\ result.fee = 25000
           /\ result.netCost = 975000

C20_Witness ==
    /\ op = "calculateSellPrice"
    /\ currentSupply = 1 /\ amount = 1 /\ basePrice = BASE_PRICE
    /\ result.kind = "quote"
    /\ result.totalCost = 1000000
    /\ result.netCost = 975000

\* C21 (as claimed): for every supply 0 <= s <= MAX_SUPPLY,
\* calculatePriceAtSupply(s) returns a price or reports an ArithmeticOverflow
\* error: the scaled multiplier stays below 2^53 or the overflow is reported
\* as that error.
C21_PriceOrOverflowError ==
    (op = "calculatePriceAtSupply" /\ currentSupply >= 0
        /\ currentSupply <= MAX_SUPPLY) =>
        \/ result.kind = "price"
        \/ result.kind = "error" /\ result.error = "ArithmeticOverflow"

\* C22 (as claimed): for every currentSupply >= 0 and basePrice >= 0 whose
\* prices are computed, the divisor calculatePriceAtSupply(currentSupply,
\* basePrice) of calculatePriceImpact is positive and the call returns a number.
C22_ImpactDivisorPositive ==
    (op = "calculatePriceImpact" /\ currentSupply >= 0 /\ basePrice >= 0
        /\ ~PriceThrows(currentSupply)
        /\ ~PriceThrows(NewSupply(currentSupply, amount, isBuy))) =>
        /\ calculatePriceAtSupply(currentSupply, basePrice) > 0
        /\ result.kind = "impact"

TradeInBounds ==
    \/ op = "calculateBuyPrice" /\ BuyInBounds
    \/ op = "calculateSellPrice" /\ SellInBounds

\* C23 (as claimed): for every quote of a buy or a sell within bounds,
\* pricePerToken * 10^9 equals totalCost, for every amount >= 1.  The code
\* takes pricePerToken from the price of the last unit priced (lines 423, 462).
C23_PerTokenIsGross ==
    (TradeInBounds /\ result.kind = "quote") => result.pricePerToken = result.totalCost

\* C24: with the default maxSlippage of 5 percent validateTrade is never
\* Valid: a trade with amount >= 1 within bounds, when validateTrade returns,
\* has a price impact above 5 and is Invalid(slippage-exceeded).
C24_DefaultSlippageNeverValid ==
    (op = "validateTrade" /\ maxSlippage = DefaultMaxSlippage) =>
        /\ result # Valid
        /\ (result.kind = "validation" /\ amount >= 1
               /\ (IF isBuy THEN currentSupply + amount <= MAX_SUPPLY
                            ELSE amount <= currentSupply)) =>
               /\ ~result.isValid
               /\ result.error = "Price impact exceeds maximum slippage"
               /\ result.impact > DefaultMaxSlippage

C24_Witness ==
    /\ op = "validateTrade"
    /\ currentSupply = 3 /\ amount = 1 /\ isBuy /\ maxSlippage = DefaultMaxSlippage
    /\ result = SlippageExceeded(999)

\* C26: a round trip never profits: where both calls return a quote, the
\* netCost of selling n units at supply s + n is at most the netCost of buying
\* n units at supply s, and the difference is twice the fee of the buy.
C26_RoundTripLosesTwoFees ==
    (op = "calculateBuyPrice" /\ BuyInBounds /\ result.kind = "quote") =>
        LET sell == calculateSellPrice(currentSupply + amount, amount, basePrice)
        IN  sell.kind = "quote" =>
                /\ sell.netCost <= result.netCost
                /\ result.netCost - sell.netCost = 2 * result.fee

C26_Witness ==
    /\ op = "calculateBuyPrice"
    /\ currentSupply = 2 /\ amount = 3 /\ basePrice = BASE_PRICE
    /\ result.kind = "quote"
    /\ result.fee = 100125
    /\ result.netCost = 4105125
    /\ calculateSellPrice(5, 3, BASE_PRICE).netCost = 3904875

\* C27: the gross cost does not depend on how a trade is split: a buy of
\* a + b units at s costs what a buy of a at s and a buy of b at s + a cost
\* together, and a sell of a + b units at s yields what a sell of a at s and a
\* sell of b at s - a yield together (a, b >= 1).
C27_SplitInvariance ==
    /\ (op = "calculateBuyPrice" /\ BuyInBounds /\ result.kind = "quote") =>
           \A a \in 1 .. (amount - 1) :
               result.totalCost
                   = calculateBuyPrice(currentSupply, a, basePrice).totalCost
                     + calculateBuyPrice(currentSupply + a, amount - a,
                                         basePrice).totalCost
    /\ (op = "calculateSellPrice" /\ SellInBounds /\ result.kind = "quote") =>
           \A a \in 1 .. (amount - 1) :
               result.totalCost
                   = calculateSellPrice(currentSupply, a, basePrice).totalCost
                     + calculateSellPrice(currentSupply - a, amount - a,
                                          basePrice).totalCost

C27_Witness ==
    /\ op = "calculateBuyPrice"
    /\ currentSupply = 1 /\ amount = 4 /\ basePrice = BASE_PRICE
    /\ result.kind = "quote"
    /\ result.totalCost = 5105000
    /\ calculateBuyPrice(1, 2, BASE_PRICE).totalCost = 2310000
    /\ calculateBuyPrice(3, 2, BASE_PRICE).totalCost = 2795000

\* C25: reserve solvency: on the ledger that starts at supply 0 with reserve
\* 0, adds each buy's totalCost and removes each sell's, the reserve is the
\* sum of calculatePriceAtSupply(i) for i = 0 .. supply - 1, so it is never
\* negative and is 0 again whenever the supply is 0.
C25_ReserveSolvency ==
    /\ reserveBalance = SumPrices(0, currentSupply - 1, basePrice)
    /\ reserveBalance >= 0
    /\ currentSupply = 0 => reserveBalance = 0

C25_Witness ==
    /\ op = "sell"
    /\ currentSupply = 0
    /\ reserveBalance = 0
    /\ result.kind = "quote"
    /\ result.totalCost = 3310000

\* C28: the binary search of calculateOptimalTradeSize terminates: every
\* iteration that stays in the loop strictly shrinks the interval
\* [low, high], the call eventually returns or throws, and when it returns
\* the loop has ended with low > high and the result is what the whole-call
\* operator computes.
C28_SearchTerminates ==
    /\ [][(op = "loop" /\ op' = "loop") => high' - low' < high - low]_vars
    /\ [](op = "returned" =>
            /\ low > high
            /\ result = calculateOptimalTradeSize(currentSupply, maxSlippage,
                                                  isBuy, basePrice))
    /\ <>(op \in {"returned", "threw"})

C28_Witness ==
    /\ op = "returned"
    /\ ~isBuy /\ currentSupply = 8 /\ maxSlippage = 2100
    /\ basePrice = BASE_PRICE
    /\ low = 3 /\ high = 2
    /\ result = Size(2)

\* C29 (as claimed): at most one connection of the hook is live at any time,
\* and once the cleanup has run no connection is live: the close event that
\* follows the cleanup schedules no reconnect, so no socket is made after it.
C29_NoConnectionAfterCleanup ==
    /\ Cardinality(Live) <= 1
    /\ phase = "unmounted" => Live = {}

\* C30 (as claimed): after any sequence of createUserKey, buyKey and sellKey
\* calls, every key of ownedKeys has the totalSupply and the balance of the
\* key with the same publicKey in userKeys, and a successful sellKey priced
\* its sale from the supply the key had in userKeys.
C30_OwnedKeysAgree ==
    /\ \A i \in 1 .. Len(ownedKeys) : \A j \in 1 .. Len(userKeys) :
           ownedKeys[i].publicKey = userKeys[j].publicKey =>
               /\ ownedKeys[i].totalSupply = userKeys[j].totalSupply
               /\ ownedKeys[i].balance = userKeys[j].balance
    /\ (op = "sellKey" /\ result.ok) =>
           result.price
               = calculateKeyPrice(
                     userKeys[IndexOf(userKeys, result.keyPublicKey)].totalSupply,
                     result.amount)

====
